---- MODULE Spec2Model ----
(***************************************************************************)
(* State-machine model of the DJ Senoh "Moment" backend:                   *)
(*   - backend/server.py : the API service (startup seeding, the five      *)
(*     routes under /api) over three MongoDB collections;                  *)
(*   - backend_test.py   : the sequential HTTP test harness.               *)
(* Every `await db....` of the service is one storage step; handlers that  *)
(* await twice (startup_event, create_ticket_reservation) are split at     *)
(* their awaits so that other handlers can interleave between them.        *)
(***************************************************************************)
EXTENDS Integers, Sequences, FiniteSets, TLC

\* ---------------------------------------------------------------- bounds
MaxStartups == 2       \* startup_event runs (process starts) modelled
MaxReservations == 1   \* create_ticket_reservation handlers admitted past the lookup
MaxMomentCalls == 2    \* get_nft_moments calls whose responses are kept
MaxClock == 0          \* datetime.utcnow() ranges over 0..MaxClock (0: one instant)
MaxQuantity == 2       \* request quantities range over -1..MaxQuantity

VARIABLES
  festivals,            \* db.festivals, in insertion (natural) order
  dj_profiles,          \* db.dj_profiles
  ticket_reservations,  \* db.ticket_reservations
  startup,              \* startup[p]: position of startup_event run p
  handlers,             \* create_ticket_reservation calls suspended at insert_one
  now,                  \* last value datetime.utcnow() returned
  response,             \* the step just taken and, for a route, its HTTP response
  moments_seen,         \* the get_nft_moments responses returned so far
  \* backend_test.py
  pc,                   \* the harness's position in run_all_tests
  test_results,         \* BackendTester.test_results
  tester_festival_id,   \* BackendTester.festival_id
  requests,             \* the HTTP requests the harness has sent
  exit_code,            \* the process's exit status once it has exited
  escaped               \* the exception that left run_all_tests ("none" if none)

service_vars == <<festivals, dj_profiles, ticket_reservations, startup, handlers,
                  now, response, moments_seen>>

harness_vars == <<pc, test_results, tester_festival_id, requests, exit_code, escaped>>

vars == <<festivals, dj_profiles, ticket_reservations, startup, handlers,
          now, response, moments_seen,
          pc, test_results, tester_festival_id, requests, exit_code, escaped>>

Procs == 1..MaxStartups

\* ------------------------------------------------------- storage helpers
None == [found |-> FALSE]

Some(doc) == [found |-> TRUE, doc |-> doc]

\* collection.find_one({key: val}): the first document, in natural order,
\* whose field `key` equals val; None when there is none.
\* (fault variant FindOneAny: the filter is ignored)
FindOneAny(coll, key, val) ==
  IF coll = <<>> THEN None ELSE Some(coll[1])

FindOne(coll, key, val) ==
  LET hits == {i \in 1..Len(coll) : coll[i][key] = val}
  IN IF hits = {} THEN None
     ELSE Some(coll[CHOOSE i \in hits : \A j \in hits : i <= j])

\* collection.insert_one(doc)
\* (fault variants: the insert replaces the collection's content; the insert
\* is skipped when the collection already holds a document)
InsertOneReplacing(coll, doc) == <<doc>>

InsertOneIfEmpty(coll, doc) == IF coll = <<>> THEN <<doc>> ELSE coll

InsertOne(coll, doc) == Append(coll, doc)

\* collection.find().to_list(1000)
FindAll(coll) == SubSeq(coll, 1, IF Len(coll) < 1000 THEN Len(coll) ELSE 1000)

\* str(uuid.uuid4()): values never repeat. The value drawn for the n-th
\* object of a kind (festival, profile, reservation, moment) is named after
\* the kind and n, so that the names, like the values, are pairwise distinct.
Uuid(kind, n) == kind \o "-" \o ToString(n)

\* ---------------------------------------------------------------- models
\* Festival(...) as constructed by startup_event; the literal display texts
\* are abbreviated to the fields the routes and the harness inspect.
SampleFestival(id, t) ==
  [id |-> id, name |-> "Moment Festival", year |-> 2025,
   location |-> "Tenkawa", date |-> "2025-07-26/27",
   description |-> "text",
   venue_info |-> [name |-> "Forest Inn Dorogawa"],
   sound_system |-> [primary |-> "Alcons Audio", secondary |-> "Function One"],
   family_services |-> <<"kids area", "kids meal", "nursery staff", "workshop">>,
   ticket_info |-> [early_bird |-> 15000, regular |-> 18000, vip |-> 35000, family |-> 40000],
   created_at |-> t]

SampleDj(id, t) ==
  [id |-> id, name |-> "Mike Senoh", stage_name |-> "DJ Senoh",
   location |-> "Osaka",
   music_styles |-> <<"Psytrance", "Techno", "Electronic Music">>,
   career_start |-> 2004, bio |-> "text",
   philosophy |-> [meditation |-> "m", awareness |-> "a", permanence |-> "p"],
   timeline |-> <<2004, 2014, 2020, 2021, 2025, 2025>>,
   social_links |-> [soundcloud |-> "@djsenoh", facebook |-> "DJ Senoh Official",
                     instagram |-> "@moment_jp", twitter |-> "@moment_jp"],
   created_at |-> t]

\* ----------------------------------------------------------- responses
\* response.op names the step just taken, response.arg the id it was asked
\* about ("" when it takes none); status 0 marks a step that sends nothing.
Ok(op, arg, body) == [op |-> op, arg |-> arg, status |-> 200, body |-> body]

\* raise HTTPException(status_code=404, detail=detail)
NotFound(op, arg, detail) ==
  [op |-> op, arg |-> arg, status |-> 404, body |-> <<[detail |-> detail]>>]

\* a step that sends no HTTP response (a startup step, a handler suspended
\* at its next await)
Suspended(op, arg) == [op |-> op, arg |-> arg, status |-> 0, body |-> <<>>]

Silent(op) == Suspended(op, "")

\* ---------------------------------------------------- JSON, as Python sees it
\* response.json(): None, str, int, list or dict
JNull == [t |-> "null"]

JStr(s) == [t |-> "str", s |-> s]

JNum(n) == [t |-> "num", n |-> n]

JList(items) == [t |-> "list", items |-> items]

JObj(fields) == [t |-> "obj", fields |-> fields]

IsDict(j) == j.t = "obj"

IsList(j) == j.t = "list"

\* `key in d` and d.get(key) / d.get(key, default) for a dict d
HasKey(d, key) == key \in DOMAIN d.fields

DictGet(d, key, default) == IF HasKey(d, key) THEN d.fields[key] ELSE default

\* bool(x) for the values the harness tests with `not`
\* (fault variant TruthyUnchecked: the `if not self.festival_id` guards dropped)
TruthyUnchecked(j) == TRUE

Truthy(j) ==
  CASE j.t = "null" -> FALSE
    [] j.t = "str" -> j.s # ""
    [] j.t = "num" -> j.n # 0
    [] j.t = "list" -> j.items # <<>>
    [] OTHER -> DOMAIN j.fields # {}

Init ==
  /\ festivals = <<>>
  /\ dj_profiles = <<>>
  /\ ticket_reservations = <<>>
  /\ startup = [p \in Procs |-> "idle"]
  /\ handlers = <<>>
  /\ now = 0
  /\ response = Silent("none")
  /\ moments_seen = <<>>
  /\ pc = "test_festivals_list"
  /\ test_results = <<>>
  /\ tester_festival_id = JNull
  /\ requests = <<>>
  /\ exit_code = -1
  /\ escaped = "none"

\* ------------------------------------------------------- startup_event
\* startup[p] is the await run p is suspended at (or "idle"/"done"/"aborted").
Running(p) == startup[p] \notin {"idle", "done", "aborted"}

\* line 92-93: existing_festival = await db.festivals.find_one({"name": ...})
\* (fault variant AfterFestivalLookupUnchecked: `if not existing_festival` dropped)
AfterFestivalLookupUnchecked(existing_festival) == "insert_festival"

AfterFestivalLookup(existing_festival) ==
  IF existing_festival.found THEN "find_dj" ELSE "insert_festival"

StartupFindFestival(p) ==
  /\ startup[p] = "idle"
  /\ startup' = [startup EXCEPT ![p] =
                   AfterFestivalLookup(FindOne(festivals, "name", "Moment Festival"))]
  /\ response' = Silent("startup_event")
  /\ UNCHANGED <<festivals, dj_profiles, ticket_reservations, handlers, now,
                 moments_seen>>
  /\ UNCHANGED harness_vars

\* line 94-140: sample_festival = Festival(...); await db.festivals.insert_one(...)
StartupInsertFestival(p) ==
  /\ startup[p] = "insert_festival"
  /\ \E t \in now..MaxClock :
       /\ festivals' = InsertOne(festivals, SampleFestival(Uuid("festival", Len(festivals) + 1), t))
       /\ now' = t
  /\ startup' = [startup EXCEPT ![p] = "find_dj"]
  /\ response' = Silent("startup_event")
  /\ UNCHANGED <<dj_profiles, ticket_reservations, handlers, moments_seen>>
  /\ UNCHANGED harness_vars

\* line 143-144: existing_dj = await db.dj_profiles.find_one({"stage_name": ...})
\* (fault variant AfterDjLookupSkipping: the profile is never inserted)
AfterDjLookupSkipping(existing_dj) == "done"

AfterDjLookup(existing_dj) ==
  IF existing_dj.found THEN "done" ELSE "insert_dj"

StartupFindDj(p) ==
  /\ startup[p] = "find_dj"
  /\ startup' = [startup EXCEPT ![p] =
                   AfterDjLookup(FindOne(dj_profiles, "stage_name", "DJ Senoh"))]
  /\ response' = Silent("startup_event")
  /\ UNCHANGED <<festivals, dj_profiles, ticket_reservations, handlers, now,
                 moments_seen>>
  /\ UNCHANGED harness_vars

\* line 145-184: sample_dj = DJProfile(...); await db.dj_profiles.insert_one(...)
StartupInsertDj(p) ==
  /\ startup[p] = "insert_dj"
  /\ \E t \in now..MaxClock :
       /\ dj_profiles' = InsertOne(dj_profiles, SampleDj(Uuid("dj", Len(dj_profiles) + 1), t))
       /\ now' = t
  /\ startup' = [startup EXCEPT ![p] = "done"]
  /\ response' = Silent("startup_event")
  /\ UNCHANGED <<festivals, ticket_reservations, handlers, moments_seen>>
  /\ UNCHANGED harness_vars

\* A run that never resumes from the await it is suspended at: the storage
\* call raised (nothing in startup_event catches it) or the process stopped.
StartupAbort(p) ==
  /\ Running(p)
  /\ startup' = [startup EXCEPT ![p] = "aborted"]
  /\ response' = Silent("startup_event")
  /\ UNCHANGED <<festivals, dj_profiles, ticket_reservations, handlers, now,
                 moments_seen>>
  /\ UNCHANGED harness_vars

\* ------------------------------------------------------------ GET routes
\* line 187-190
GetFestivals ==
  /\ response' = Ok("get_festivals", "", FindAll(festivals))
  /\ UNCHANGED <<festivals, dj_profiles, ticket_reservations, startup, handlers,
                 now, moments_seen>>
  /\ UNCHANGED harness_vars

\* line 192-197
FestivalResponse(festival_id, festival) ==
  IF ~festival.found THEN NotFound("get_festival", festival_id, "Festival not found")
  ELSE Ok("get_festival", festival_id, <<festival.doc>>)

GetFestival(festival_id) ==
  /\ response' = FestivalResponse(festival_id, FindOne(festivals, "id", festival_id))
  /\ UNCHANGED <<festivals, dj_profiles, ticket_reservations, startup, handlers,
                 now, moments_seen>>
  /\ UNCHANGED harness_vars

\* line 200-205
DjProfileResponse(dj) ==
  IF ~dj.found THEN NotFound("get_dj_profile", "", "DJ Profile not found")
  ELSE Ok("get_dj_profile", "", <<dj.doc>>)

GetDjProfile ==
  /\ response' = DjProfileResponse(FindOne(dj_profiles, "stage_name", "DJ Senoh"))
  /\ UNCHANGED <<festivals, dj_profiles, ticket_reservations, startup, handlers,
                 now, moments_seen>>
  /\ UNCHANGED harness_vars

\* --------------------------------------------- POST /ticket-reservation
CreateFields == {"festival_id", "name", "email", "phone", "ticket_type", "quantity"}

\* TicketReservationCreate (line 79-85) parsed from a JSON body: the six
\* declared fields are kept, any other key of the body is ignored.
\* (fault variant ParseKeepingAll: undeclared keys are kept)
ParseKeepingAll(body) == body

TicketReservationCreate(body) == [f \in CreateFields |-> body[f]]

\* line 216: ticket_prices.get(ticket_type, 18000)
TicketPrice(ticket_type) ==
  CASE ticket_type = "early_bird" -> 15000
    [] ticket_type = "regular" -> 18000
    [] ticket_type = "vip" -> 35000
    [] ticket_type = "family" -> 40000
    [] OTHER -> 18000

\* line 217 (fault variant TotalPriceUnitOnly: the quantity is left out)
TotalPriceUnitOnly(reservation_data) == TicketPrice(reservation_data.ticket_type)

TotalPrice(reservation_data) ==
  TicketPrice(reservation_data.ticket_type) * reservation_data.quantity

\* line 219-222: TicketReservation(**reservation_data.dict(), total_price=...)
\* with the defaults of line 56-66 (id, status, created_at)
TicketReservation(reservation_data, total_price, id, t) ==
  reservation_data @@
  [id |-> id, total_price |-> total_price, status |-> "pending", created_at |-> t]

\* the bodies clients send: the six fields, with or without undeclared ones
TicketTypes == {"early_bird", "regular", "vip", "family", "student"}

Quantities == (-1)..MaxQuantity

KnownIds ==
  {festivals[i].id : i \in 1..Len(festivals)}
    \cup {"invalid-festival-id"}

ExtraFields ==
  { <<>>, [id |-> "client-id", total_price |-> 1, status |-> "confirmed"] }

Body(f, tt, q, x) ==
  [festival_id |-> f, name |-> "Tanaka Taro", email |-> "tanaka.taro@example.com",
   phone |-> "090-1234-5678", ticket_type |-> tt, quantity |-> q] @@ x

Admitted == Len(handlers) + Len(ticket_reservations)

\* line 209-213: festival = await db.festivals.find_one({"id": ...}); the
\* handler either raises 404 or goes on to its second await.
\* (fault variant AfterReservationLookupUnchecked: it goes on regardless)
AfterReservationLookupUnchecked(hs, reservation_data, festival) ==
  Append(hs, reservation_data)

AfterReservationLookup(hs, reservation_data, festival) ==
  IF festival.found THEN Append(hs, reservation_data) ELSE hs

ReservationLookupResponse(reservation_data, festival) ==
  IF festival.found
  THEN Suspended("create_ticket_reservation", reservation_data.festival_id)
  ELSE NotFound("create_ticket_reservation", reservation_data.festival_id,
                "Festival not found")

CreateTicketReservationFind(body) ==
  LET reservation_data == TicketReservationCreate(body)
      festival == FindOne(festivals, "id", reservation_data.festival_id)
  IN /\ festival.found => Admitted < MaxReservations
     /\ handlers' = AfterReservationLookup(handlers, reservation_data, festival)
     /\ response' = ReservationLookupResponse(reservation_data, festival)
     /\ UNCHANGED <<festivals, dj_profiles, ticket_reservations, startup, now,
                    moments_seen>>
     /\ UNCHANGED harness_vars

\* line 215-225: price, TicketReservation(...), await insert_one, return
RemoveAt(seq, i) == SubSeq(seq, 1, i - 1) \o SubSeq(seq, i + 1, Len(seq))

CreateTicketReservationInsert(i) ==
  /\ i \in 1..Len(handlers)
  /\ \E t \in now..MaxClock :
       LET reservation == TicketReservation(handlers[i], TotalPrice(handlers[i]),
                                            Uuid("reservation", Len(ticket_reservations) + 1), t)
       IN /\ ticket_reservations' = InsertOne(ticket_reservations, reservation)
          /\ response' = Ok("create_ticket_reservation", reservation.festival_id,
                            <<reservation>>)
          /\ now' = t
  /\ handlers' = RemoveAt(handlers, i)
  /\ UNCHANGED <<festivals, dj_profiles, startup, moments_seen>>
  /\ UNCHANGED harness_vars

\* ------------------------------------------------------ GET /nft-moments
\* NFTMoment(...) (line 68-76): id and created_at come from the default
\* factories, evaluated when the record is constructed.
NFTMoment(id, title, description, image_base64, moment_timestamp, rarity, attributes, t) ==
  [id |-> id, title |-> title, description |-> description,
   image_base64 |-> image_base64, moment_timestamp |-> moment_timestamp,
   rarity |-> rarity, attributes |-> attributes, created_at |-> t]

\* line 230-255: the three records, constructed in order; n moment ids have
\* been drawn before the call and ts[k] is utcnow() at the k-th construction.
\* The base64 payloads are abbreviated after the data-URI prefix.
\* (fault variant MockNftsDrifting: the third rarity depends on the call)
MockNftsTwo(n, ts) ==
  << NFTMoment(Uuid("moment", n + 1), "Sunrise Moment #001", "sunrise",
               "data:image/svg+xml;base64,PHN2Zy-1", "2024-07-26T06:30:00Z", "legendary",
               [location |-> "Tenkawa", genre |-> "Psytrance", time |-> "Sunrise"], ts[1]),
     NFTMoment(Uuid("moment", n + 2), "Forest Echo #002", "forest",
               "data:image/svg+xml;base64,PHN2Zy-2", "2024-07-26T22:15:00Z", "rare",
               [location |-> "Tenkawa", genre |-> "Electronic", time |-> "Night"], ts[2]) >>

MockNftsDrifting(n, ts) ==
  [MockNftsTwo(n, ts) \o <<MockNftsTwo(n, ts)[2]>>
     EXCEPT ![3].id = Uuid("moment", n + 3),
            ![3].title = "Unity Flow #003",
            ![3].rarity = IF n = 0 THEN "common" ELSE "rare"]

MockNfts(n, ts) ==
  << NFTMoment(Uuid("moment", n + 1), "Sunrise Moment #001", "sunrise",
               "data:image/svg+xml;base64,PHN2Zy-1", "2024-07-26T06:30:00Z", "legendary",
               [location |-> "Tenkawa", genre |-> "Psytrance", time |-> "Sunrise"], ts[1]),
     NFTMoment(Uuid("moment", n + 2), "Forest Echo #002", "forest",
               "data:image/svg+xml;base64,PHN2Zy-2", "2024-07-26T22:15:00Z", "rare",
               [location |-> "Tenkawa", genre |-> "Electronic", time |-> "Night"], ts[2]),
     NFTMoment(Uuid("moment", n + 3), "Unity Flow #003", "unity",
               "data:image/svg+xml;base64,PHN2Zy-3", "2024-07-27T16:00:00Z", "common",
               [location |-> "Tenkawa", genre |-> "Ambient", time |-> "Afternoon"], ts[3]) >>

\* three successive readings of the clock
Readings ==
  {ts \in [1..3 -> now..MaxClock] : ts[1] <= ts[2] /\ ts[2] <= ts[3]}

GetNftMoments ==
  /\ Len(moments_seen) < MaxMomentCalls
  /\ \E ts \in Readings :
       /\ response' = Ok("get_nft_moments", "", MockNfts(3 * Len(moments_seen), ts))
       /\ moments_seen' = Append(moments_seen, MockNfts(3 * Len(moments_seen), ts))
       /\ now' = ts[3]
  /\ UNCHANGED <<festivals, dj_profiles, ticket_reservations, startup, handlers>>
  /\ UNCHANGED harness_vars

\* ====================================================== backend_test.py
\* What one requests.get/post call gives the harness: a raised
\* requests.exceptions.RequestException (timeout, connection error), or a
\* response with a status code and a body; json is the parsed body, or
\* JInvalid when the body is not JSON.
JInvalid == [t |-> "invalid"]

RequestException == [kind |-> "request_exception", status_code |-> 0, json |-> JNull]

Http(status_code, json) == [kind |-> "http", status_code |-> status_code, json |-> json]

\* log_test (line 22-33): one entry appended to test_results
Logged(test_name, success, message) ==
  [raised |-> FALSE,
   entry |-> [test |-> test_name, success |-> success, message |-> message]]

\* an exception no `except requests.exceptions.RequestException` clause catches
Raised(exc) == [raised |-> TRUE, exc |-> exc]

\* response.json() on a body that is not JSON raises a JSONDecodeError; the
\* installed requests library decides whether that is a RequestException
\* (caught, logged as a failure) or a plain ValueError (not caught).
JsonError(test_name, caught) ==
  IF caught THEN Logged(test_name, FALSE, "Request failed: JSONDecodeError")
  ELSE Raised("JSONDecodeError")

\* len(x) and `key in x` for the parsed values the checks apply them to
HasLen(j) == j.t \in {"list", "obj"}

PyLen(j) == IF j.t = "list" THEN Len(j.items) ELSE Cardinality(DOMAIN j.fields)

\* (`key in x` on a str is a substring test; no reply below puts a str there)
IsContainer(j) == j.t \in {"list", "obj"}

PyIn(key, j) ==
  IF j.t = "obj" THEN HasKey(j, key)
  ELSE \E i \in 1..Len(j.items) : j.items[i] = JStr(key)

Missing(required_fields, d) == {field \in required_fields : ~PyIn(field, d)}

\* ---- test_festivals_list (line 35-66)
FestivalRequired ==
  {"id", "name", "year", "location", "date", "venue_info", "sound_system",
   "family_services", "ticket_info"}

\* line 44: self.festival_id = festivals[0].get('id'), reached once the
\* response is a non-empty list whose first element has a .get
ReachesFirstFestival(reply) ==
  /\ reply.kind = "http"
  /\ reply.status_code = 200
  /\ IsList(reply.json)
  /\ Len(reply.json.items) > 0
  /\ IsDict(reply.json.items[1])

FestivalsListOutcome(reply, caught) ==
  LET name == "Festival List API" IN
  IF reply.kind = "request_exception" THEN Logged(name, FALSE, "Request failed")
  ELSE IF reply.status_code # 200 THEN Logged(name, FALSE, "HTTP")
  ELSE IF reply.json = JInvalid THEN JsonError(name, caught)
  ELSE IF ~(IsList(reply.json) /\ Len(reply.json.items) > 0)
    THEN Logged(name, FALSE, "Empty festivals list returned")
  ELSE LET festival == reply.json.items[1] IN
    IF ~IsDict(festival) THEN Raised("AttributeError")
    ELSE IF Missing(FestivalRequired, festival) # {}
      THEN Logged(name, FALSE, "Missing required fields")
    ELSE IF festival.fields["name"] = JStr("Moment Festival")
            /\ festival.fields["year"] = JNum(2025)
      THEN Logged(name, TRUE, "Successfully retrieved")
    ELSE Logged(name, FALSE, "Unexpected festival data")

\* self.festival_id after the check (line 44 runs before the validation of
\* line 48-59)
\* (fault variant FestivalIdAfterListOnSuccess: line 44 moved into the
\* passing branch)
FestivalIdAfterListOnSuccess(reply, old) ==
  IF ReachesFirstFestival(reply)
     /\ ~FestivalsListOutcome(reply, TRUE).raised
     /\ FestivalsListOutcome(reply, TRUE).entry.success
  THEN DictGet(reply.json.items[1], "id", JNull) ELSE old

FestivalIdAfterList(reply, old) ==
  IF ReachesFirstFestival(reply) THEN DictGet(reply.json.items[1], "id", JNull) ELSE old

\* ---- test_festival_detail (line 68-110)
EmptyDict == JObj(<<>>)

EmptyList == JList(<<>>)

ExpectedTickets == {"early_bird", "regular", "vip", "family"}

FestivalDetailOutcome(reply, caught) ==
  LET name == "Festival Detail API" IN
  IF reply.kind = "request_exception" THEN Logged(name, FALSE, "Request failed")
  ELSE IF reply.status_code # 200 THEN Logged(name, FALSE, "HTTP")
  ELSE IF reply.json = JInvalid THEN JsonError(name, caught)
  ELSE LET festival == reply.json IN
    IF ~IsDict(festival) THEN Raised("AttributeError")
    ELSE IF DictGet(festival, "name", JNull) # JStr("Moment Festival")
      THEN Logged(name, FALSE, "Incorrect festival name")
    ELSE LET venue_info == DictGet(festival, "venue_info", EmptyDict) IN
    IF ~IsDict(venue_info) THEN Raised("AttributeError")
    ELSE IF DictGet(venue_info, "name", JNull) # JStr("Forest Inn Dorogawa")
      THEN Logged(name, FALSE, "Incorrect venue")
    ELSE LET sound_system == DictGet(festival, "sound_system", EmptyDict) IN
    IF ~IsDict(sound_system) THEN Raised("AttributeError")
    ELSE IF DictGet(sound_system, "primary", JNull) # JStr("Alcons Audio")
      THEN Logged(name, FALSE, "Incorrect sound system")
    ELSE LET family_services == DictGet(festival, "family_services", EmptyList) IN
    IF ~HasLen(family_services) THEN Raised("TypeError")
    ELSE IF ~(PyLen(family_services) >= 4)
      THEN Logged(name, FALSE, "Insufficient family services")
    ELSE LET ticket_info == DictGet(festival, "ticket_info", EmptyDict) IN
    IF ~IsContainer(ticket_info) THEN Raised("TypeError")
    ELSE IF \A ticket \in ExpectedTickets : PyIn(ticket, ticket_info)
      THEN Logged(name, TRUE, "Festival detail retrieved")
    ELSE Logged(name, FALSE, "Missing ticket types")

\* ---- test_dj_profile (line 112-154)
ProfileRequired ==
  {"name", "stage_name", "location", "music_styles", "career_start", "bio",
   "philosophy", "timeline", "social_links"}

ExpectedPhilosophy == {"meditation", "awareness", "permanence"}

ExpectedSocials == {"soundcloud", "facebook", "instagram", "twitter"}

DjProfileOutcome(reply, caught) ==
  LET name == "DJ Profile API" IN
  IF reply.kind = "request_exception" THEN Logged(name, FALSE, "Request failed")
  ELSE IF reply.status_code # 200 THEN Logged(name, FALSE, "HTTP")
  ELSE IF reply.json = JInvalid THEN JsonError(name, caught)
  ELSE LET profile == reply.json IN
    IF ~IsContainer(profile) THEN Raised("TypeError")
    ELSE IF Missing(ProfileRequired, profile) # {}
      THEN Logged(name, FALSE, "Missing required fields")
    ELSE IF ~IsDict(profile) THEN Raised("AttributeError")
    ELSE IF ~(profile.fields["stage_name"] = JStr("DJ Senoh")
              /\ profile.fields["name"] = JStr("Mike Senoh"))
      THEN Logged(name, FALSE, "Incorrect DJ data")
    ELSE LET philosophy == profile.fields["philosophy"]
             timeline == profile.fields["timeline"]
             social_links == profile.fields["social_links"] IN
    IF ~IsContainer(philosophy) THEN Raised("TypeError")
    ELSE IF ~(\A key \in ExpectedPhilosophy : PyIn(key, philosophy))
      THEN Logged(name, FALSE, "Missing philosophy elements")
    ELSE IF ~HasLen(timeline) THEN Raised("TypeError")
    ELSE IF ~(PyLen(timeline) >= 6)
      THEN Logged(name, FALSE, "Insufficient timeline entries")
    ELSE IF ~IsContainer(social_links) THEN Raised("TypeError")
    ELSE IF \A social \in ExpectedSocials : PyIn(social, social_links)
      THEN Logged(name, TRUE, "DJ profile retrieved")
    ELSE Logged(name, FALSE, "Missing social links")

\* ---- test_nft_moments (line 156-199)
NftRequired ==
  {"id", "title", "description", "image_base64", "moment_timestamp", "rarity",
   "attributes"}

ExpectedTitles == {"Sunrise Moment #001", "Forest Echo #002", "Unity Flow #003"}

ExpectedRarities == {JStr("legendary"), JStr("rare"), JStr("common")}

SvgPrefix == "data:image/svg+xml;base64,"

\* s.startswith(prefix), for the strings whose remainder is one of Payloads
Payloads == {"", "PHN2Zy-1", "PHN2Zy-2", "PHN2Zy-3"}

StartsWith(s, prefix) == \E rest \in Payloads : s = prefix \o rest

\* nft[key] for every nft in nfts: the first record it cannot be read from
\* decides the exception (KeyError on a dict without the key, TypeError on
\* anything that is not a dict)
Unreadable(nfts, key) ==
  {i \in 1..Len(nfts) : ~IsDict(nfts[i]) \/ ~HasKey(nfts[i], key)}

Lowest(S) == CHOOSE i \in S : \A j \in S : i <= j

SubscriptError(nfts, key) ==
  IF IsDict(nfts[Lowest(Unreadable(nfts, key))]) THEN Raised("KeyError")
  ELSE Raised("TypeError")

\* line 180: all(nft['image_base64'].startswith(prefix) for nft in nfts)
\* stops at the first record that raises or does not match
ImageStops(nfts) ==
  {i \in 1..Len(nfts) :
     \/ ~IsDict(nfts[i])
     \/ ~HasKey(nfts[i], "image_base64")
     \/ nfts[i].fields["image_base64"].t # "str"
     \/ ~StartsWith(nfts[i].fields["image_base64"].s, SvgPrefix)}

ImageRaises(nft) ==
  \/ ~IsDict(nft)
  \/ ~HasKey(nft, "image_base64")
  \/ nft.fields["image_base64"].t # "str"

ImageError(nft) ==
  IF ~IsDict(nft) THEN Raised("TypeError")
  ELSE IF ~HasKey(nft, "image_base64") THEN Raised("KeyError")
  ELSE Raised("AttributeError")

NftMomentsOutcome(reply, caught) ==
  LET name == "NFT Moments API" IN
  IF reply.kind = "request_exception" THEN Logged(name, FALSE, "Request failed")
  ELSE IF reply.status_code # 200 THEN Logged(name, FALSE, "HTTP")
  ELSE IF reply.json = JInvalid THEN JsonError(name, caught)
  ELSE IF ~(IsList(reply.json) /\ Len(reply.json.items) >= 3)
    THEN Logged(name, FALSE, "Insufficient NFT data")
  ELSE LET nfts == reply.json.items IN
    IF ~IsContainer(nfts[1]) THEN Raised("TypeError")
    ELSE IF Missing(NftRequired, nfts[1]) # {}
      THEN Logged(name, FALSE, "Missing required fields")
    ELSE IF Unreadable(nfts, "title") # {} THEN SubscriptError(nfts, "title")
    ELSE IF ~(\A title \in ExpectedTitles :
                \E i \in 1..Len(nfts) : nfts[i].fields["title"] = JStr(title))
      THEN Logged(name, FALSE, "Missing expected NFTs")
    ELSE IF ImageStops(nfts) # {} /\ ImageRaises(nfts[Lowest(ImageStops(nfts))])
      THEN ImageError(nfts[Lowest(ImageStops(nfts))])
    ELSE IF ImageStops(nfts) # {}
      THEN Logged(name, FALSE, "Invalid image format")
    ELSE IF Unreadable(nfts, "rarity") # {} THEN SubscriptError(nfts, "rarity")
    ELSE IF \A i \in 1..Len(nfts) : nfts[i].fields["rarity"] \in ExpectedRarities
      THEN Logged(name, TRUE, "Retrieved NFT moments")
    ELSE Logged(name, FALSE, "Invalid rarity values")

\* ---- test_ticket_reservation (line 201-254)
ReservationRequired ==
  {"id", "festival_id", "name", "email", "phone", "ticket_type", "quantity",
   "total_price", "status"}

\* line 208-215
ReservationData(fid) ==
  [festival_id |-> fid, name |-> JStr("Tanaka Taro"),
   email |-> JStr("tanaka.taro@example.com"), phone |-> JStr("090-1234-5678"),
   ticket_type |-> JStr("early_bird"), quantity |-> JNum(2)]

TicketReservationOutcome(reply, caught, reservation_data) ==
  LET name == "Ticket Reservation API" IN
  IF reply.kind = "request_exception" THEN Logged(name, FALSE, "Request failed")
  ELSE IF reply.status_code # 200 THEN Logged(name, FALSE, "HTTP")
  ELSE IF reply.json = JInvalid THEN JsonError(name, caught)
  ELSE LET reservation == reply.json IN
    IF ~IsContainer(reservation) THEN Raised("TypeError")
    ELSE IF Missing(ReservationRequired, reservation) # {}
      THEN Logged(name, FALSE, "Missing required fields in response")
    ELSE IF ~IsDict(reservation) THEN Raised("TypeError")
    ELSE IF reservation.fields["total_price"] # JNum(15000 * 2)
      THEN Logged(name, FALSE, "Incorrect price calculation")
    ELSE IF /\ reservation.fields["name"] = reservation_data.name
            /\ reservation.fields["email"] = reservation_data.email
            /\ reservation.fields["ticket_type"] = reservation_data.ticket_type
            /\ reservation.fields["quantity"] = reservation_data.quantity
            /\ reservation.fields["status"] = JStr("pending")
      THEN Logged(name, TRUE, "Ticket reservation created successfully")
    ELSE Logged(name, FALSE, "Reservation data mismatch in response")

\* ---- test_ticket_reservation_validation (line 256-282)
InvalidReservation ==
  [festival_id |-> JStr("invalid-festival-id"), name |-> JStr("Test User"),
   email |-> JStr("test@example.com"), phone |-> JStr("090-0000-0000"),
   ticket_type |-> JStr("regular"), quantity |-> JNum(1)]

ReservationValidationOutcome(reply) ==
  LET name == "Ticket Reservation Validation" IN
  IF reply.kind = "request_exception" THEN Logged(name, FALSE, "Request failed")
  ELSE IF reply.status_code = 404
    THEN Logged(name, TRUE, "Correctly rejected reservation with invalid festival ID (404)")
  ELSE Logged(name, FALSE, "Expected 404 for invalid festival ID")

\* ---- the responses the harness is run against
DropKey(fields, key) == [k \in (DOMAIN fields) \ {key} |-> fields[k]]

GoodFestival(id) ==
  [id |-> id, name |-> JStr("Moment Festival"), year |-> JNum(2025),
   location |-> JStr("Tenkawa"), date |-> JStr("2025-07-26/27"),
   description |-> JStr("text"),
   venue_info |-> JObj([name |-> JStr("Forest Inn Dorogawa")]),
   sound_system |-> JObj([primary |-> JStr("Alcons Audio")]),
   family_services |-> JList(<<JStr("kids area"), JStr("kids meal"),
                               JStr("nursery staff"), JStr("workshop")>>),
   ticket_info |-> JObj([early_bird |-> JNum(15000), regular |-> JNum(18000),
                         vip |-> JNum(35000), family |-> JNum(40000)]),
   created_at |-> JStr("t")]

FestivalsListReplies ==
  { RequestException, Http(500, JInvalid), Http(200, JInvalid),
    Http(200, EmptyList), Http(200, EmptyDict),
    Http(200, JList(<<JStr("x")>>)) }
  \cup { Http(200, JList(<<JObj(f)>>)) :
           f \in { GoodFestival(JStr("festival-1")),
                   DropKey(GoodFestival(JStr("festival-1")), "id"),
                   DropKey(GoodFestival(JStr("festival-1")), "ticket_info"),
                   [GoodFestival(JStr("festival-1")) EXCEPT !.name = JStr("Other Festival")],
                   [GoodFestival(JStr("festival-1")) EXCEPT !.year = JNum(2024)] } }

FestivalDetailReplies ==
  { RequestException, Http(404, JObj([detail |-> JStr("Festival not found")])),
    Http(200, JInvalid), Http(200, EmptyList) }
  \cup { Http(200, JObj(f)) :
           f \in { GoodFestival(JStr("festival-1")),
                   [GoodFestival(JStr("festival-1")) EXCEPT !.name = JStr("Other Festival")],
                   [GoodFestival(JStr("festival-1")) EXCEPT !.venue_info = JNull],
                   [GoodFestival(JStr("festival-1")) EXCEPT !.venue_info = EmptyDict],
                   [GoodFestival(JStr("festival-1")) EXCEPT !.sound_system = EmptyDict],
                   [GoodFestival(JStr("festival-1")) EXCEPT !.family_services = EmptyList],
                   [GoodFestival(JStr("festival-1")) EXCEPT !.family_services = JNull],
                   [GoodFestival(JStr("festival-1")) EXCEPT !.ticket_info =
                       JObj([regular |-> JNum(18000)])] } }

GoodProfile ==
  [id |-> JStr("dj-1"), name |-> JStr("Mike Senoh"), stage_name |-> JStr("DJ Senoh"),
   location |-> JStr("Osaka"), music_styles |-> JList(<<JStr("Psytrance")>>),
   career_start |-> JNum(2004), bio |-> JStr("text"),
   philosophy |-> JObj([meditation |-> JNull, awareness |-> JNull, permanence |-> JNull]),
   timeline |-> JList(<<JNum(2004), JNum(2014), JNum(2020), JNum(2021), JNum(2025),
                        JNum(2025)>>),
   social_links |-> JObj([soundcloud |-> JNull, facebook |-> JNull, instagram |-> JNull,
                          twitter |-> JNull])]

DjProfileReplies ==
  { RequestException, Http(404, JObj([detail |-> JStr("DJ Profile not found")])),
    Http(200, JInvalid), Http(200, JNull) }
  \cup { Http(200, JObj(f)) :
           f \in { GoodProfile,
                   DropKey(GoodProfile, "bio"),
                   [GoodProfile EXCEPT !.stage_name = JStr("DJ Other")],
                   [GoodProfile EXCEPT !.philosophy = JObj([meditation |-> JNull])],
                   [GoodProfile EXCEPT !.philosophy = JNull],
                   [GoodProfile EXCEPT !.timeline = JList(<<JNum(2004)>>)],
                   [GoodProfile EXCEPT !.social_links = EmptyDict] } }

GoodNft(n, title, rarity) ==
  [id |-> JStr(Uuid("moment", n)), title |-> JStr(title), description |-> JStr("text"),
   image_base64 |-> JStr(SvgPrefix \o "PHN2Zy-1"), moment_timestamp |-> JStr("t"),
   rarity |-> JStr(rarity), attributes |-> EmptyDict, created_at |-> JStr("t")]

Nft1 == GoodNft(1, "Sunrise Moment #001", "legendary")

Nft2 == GoodNft(2, "Forest Echo #002", "rare")

Nft3 == GoodNft(3, "Unity Flow #003", "common")

NftMomentsReplies ==
  { RequestException, Http(500, JInvalid), Http(200, JInvalid),
    Http(200, JList(<<JObj(Nft1), JObj(Nft2)>>)),
    Http(200, JList(<<JNull, JObj(Nft2), JObj(Nft3)>>)) }
  \cup { Http(200, JList(<<JObj(a), JObj(b), JObj(Nft3)>>)) :
           a \in {Nft1}, 
           b \in { Nft2, DropKey(Nft2, "title"), DropKey(Nft2, "image_base64"),
                   DropKey(Nft2, "rarity"),
                   [Nft2 EXCEPT !.title = JStr("Other #004")],
                   [Nft2 EXCEPT !.image_base64 = JStr("PHN2Zy-2")],
                   [Nft2 EXCEPT !.image_base64 = JNull],
                   [Nft2 EXCEPT !.rarity = JStr("epic")] } }
  \cup { Http(200, JList(<<JObj(DropKey(Nft1, "attributes")), JObj(Nft2), JObj(Nft3)>>)) }

GoodReservation(reservation_data) ==
  reservation_data @@
  [id |-> JStr("reservation-1"), total_price |-> JNum(30000), status |-> JStr("pending"),
   created_at |-> JStr("t")]

TicketReservationReplies(reservation_data) ==
  { RequestException, Http(404, JObj([detail |-> JStr("Festival not found")])),
    Http(200, JInvalid), Http(200, JNull) }
  \cup { Http(200, JObj(f)) :
           f \in { GoodReservation(reservation_data),
                   DropKey(GoodReservation(reservation_data), "status"),
                   [GoodReservation(reservation_data) EXCEPT !.total_price = JNum(36000)],
                   [GoodReservation(reservation_data) EXCEPT !.status = JStr("confirmed")] } }

ReservationValidationReplies ==
  { RequestException, Http(404, JObj([detail |-> JStr("Festival not found")])),
    Http(200, JObj(GoodReservation(InvalidReservation))), Http(422, EmptyDict) }

\* ---- run_all_tests (line 284-321) and the main block (line 323-326)
Get(path, arg) == [method |-> "GET", path |-> path, arg |-> arg]

Post(path, arg) == [method |-> "POST", path |-> path, arg |-> arg]

\* a check returns after logging its one result, or an exception leaves
\* run_all_tests and the interpreter exits with status 1
\* (fault variant ContinueStoppingAtFailure: a failed check ends the run)
ContinueStoppingAtFailure(out, next) ==
  IF out.raised
  THEN /\ pc' = "exited"
       /\ exit_code' = 1
       /\ escaped' = out.exc
       /\ test_results' = test_results
  ELSE /\ pc' = IF out.entry.success THEN next ELSE "exited"
       /\ exit_code' = IF out.entry.success THEN exit_code ELSE 1
       /\ escaped' = escaped
       /\ test_results' = Append(test_results, out.entry)

Continue(out, next) ==
  IF out.raised
  THEN /\ pc' = "exited"
       /\ exit_code' = 1
       /\ escaped' = out.exc
       /\ test_results' = test_results
  ELSE /\ pc' = next
       /\ exit_code' = exit_code
       /\ escaped' = escaped
       /\ test_results' = Append(test_results, out.entry)

TestFestivalsList(reply, caught) ==
  /\ pc = "test_festivals_list"
  /\ requests' = Append(requests, Get("/festivals", JNull))
  /\ tester_festival_id' = FestivalIdAfterList(reply, tester_festival_id)
  /\ Continue(FestivalsListOutcome(reply, caught), "test_festival_detail")
  /\ UNCHANGED service_vars

\* line 70-72
TestFestivalDetailNoId ==
  /\ pc = "test_festival_detail"
  /\ ~Truthy(tester_festival_id)
  /\ Continue(Logged("Festival Detail API", FALSE,
                     "No festival ID available from previous test"), "test_dj_profile")
  /\ UNCHANGED <<requests, tester_festival_id>>
  /\ UNCHANGED service_vars

TestFestivalDetail(reply, caught) ==
  /\ pc = "test_festival_detail"
  /\ Truthy(tester_festival_id)
  /\ requests' = Append(requests, Get("/festivals/{festival_id}", tester_festival_id))
  /\ Continue(FestivalDetailOutcome(reply, caught), "test_dj_profile")
  /\ UNCHANGED tester_festival_id
  /\ UNCHANGED service_vars

TestDjProfile(reply, caught) ==
  /\ pc = "test_dj_profile"
  /\ requests' = Append(requests, Get("/dj-profile", JNull))
  /\ Continue(DjProfileOutcome(reply, caught), "test_nft_moments")
  /\ UNCHANGED tester_festival_id
  /\ UNCHANGED service_vars

TestNftMoments(reply, caught) ==
  /\ pc = "test_nft_moments"
  /\ requests' = Append(requests, Get("/nft-moments", JNull))
  /\ Continue(NftMomentsOutcome(reply, caught), "test_ticket_reservation")
  /\ UNCHANGED tester_festival_id
  /\ UNCHANGED service_vars

\* line 203-205
TestTicketReservationNoId ==
  /\ pc = "test_ticket_reservation"
  /\ ~Truthy(tester_festival_id)
  /\ Continue(Logged("Ticket Reservation API", FALSE,
                     "No festival ID available for reservation test"),
              "test_ticket_reservation_validation")
  /\ UNCHANGED <<requests, tester_festival_id>>
  /\ UNCHANGED service_vars

TestTicketReservation(reply, caught) ==
  /\ pc = "test_ticket_reservation"
  /\ Truthy(tester_festival_id)
  /\ requests' = Append(requests, Post("/ticket-reservation", tester_festival_id))
  /\ Continue(TicketReservationOutcome(reply, caught, ReservationData(tester_festival_id)),
              "test_ticket_reservation_validation")
  /\ UNCHANGED tester_festival_id
  /\ UNCHANGED service_vars

TestTicketReservationValidation(reply) ==
  /\ pc = "test_ticket_reservation_validation"
  /\ requests' = Append(requests, Post("/ticket-reservation", InvalidReservation.festival_id))
  /\ Continue(ReservationValidationOutcome(reply), "summary")
  /\ UNCHANGED tester_festival_id
  /\ UNCHANGED service_vars

\* line 306-321: passed, total, the percentage and the returned verdict
\* (fault variant RunAllTestsResultAnyPass: one pass is enough)
Passed(results) == Cardinality({i \in 1..Len(results) : results[i].success})

RunAllTestsResultAnyPass(results) == Passed(results) > 0

RunAllTestsResult(results) == Passed(results) = Len(results)

\* line 314 divides by total; line 326: sys.exit(0 if success else 1)
ExitCode(results) ==
  IF Len(results) = 0 THEN 1
  ELSE IF RunAllTestsResult(results) THEN 0 ELSE 1

Summary ==
  /\ pc = "summary"
  /\ pc' = "exited"
  /\ exit_code' = ExitCode(test_results)
  /\ UNCHANGED <<test_results, requests, tester_festival_id, escaped>>
  /\ UNCHANGED service_vars

NextHarness ==
  \/ \E reply \in FestivalsListReplies, caught \in BOOLEAN : TestFestivalsList(reply, caught)
  \/ TestFestivalDetailNoId
  \/ \E reply \in FestivalDetailReplies, caught \in BOOLEAN : TestFestivalDetail(reply, caught)
  \/ \E reply \in DjProfileReplies, caught \in BOOLEAN : TestDjProfile(reply, caught)
  \/ \E reply \in NftMomentsReplies, caught \in BOOLEAN : TestNftMoments(reply, caught)
  \/ TestTicketReservationNoId
  \/ \E reply \in TicketReservationReplies(ReservationData(tester_festival_id)),
        caught \in BOOLEAN : TestTicketReservation(reply, caught)
  \/ \E reply \in ReservationValidationReplies : TestTicketReservationValidation(reply)
  \/ Summary

SpecHarness == Init /\ [][NextHarness]_vars

\* -------------------------------------------------------- specification
Next ==
  \/ \E p \in Procs : StartupFindFestival(p)
  \/ \E p \in Procs : StartupInsertFestival(p)
  \/ \E p \in Procs : StartupFindDj(p)
  \/ \E p \in Procs : StartupInsertDj(p)
  \/ \E p \in Procs : StartupAbort(p)
  \/ GetFestivals
  \/ \E festival_id \in KnownIds : GetFestival(festival_id)
  \/ GetDjProfile
  \/ \E f \in KnownIds, tt \in TicketTypes, q \in Quantities, x \in ExtraFields :
       CreateTicketReservationFind(Body(f, tt, q, x))
  \/ \E i \in 1..Len(handlers) : CreateTicketReservationInsert(i)
  \/ GetNftMoments

Spec == Init /\ [][Next]_vars

\* The same service when startup_event runs strictly one after another: a
\* run begins only while no other run is suspended between its awaits.
StartupFindFestivalAlone(p) ==
  /\ \A q \in Procs : ~Running(q)
  /\ StartupFindFestival(p)

NextSeq ==
  \/ \E p \in Procs : StartupFindFestivalAlone(p)
  \/ \E p \in Procs : StartupInsertFestival(p)
  \/ \E p \in Procs : StartupFindDj(p)
  \/ \E p \in Procs : StartupInsertDj(p)
  \/ \E p \in Procs : StartupAbort(p)
  \/ GetFestivals
  \/ \E festival_id \in KnownIds : GetFestival(festival_id)
  \/ GetDjProfile
  \/ \E f \in KnownIds, tt \in TicketTypes, q \in Quantities, x \in ExtraFields :
       CreateTicketReservationFind(Body(f, tt, q, x))
  \/ \E i \in 1..Len(handlers) : CreateTicketReservationInsert(i)
  \/ GetNftMoments

SpecSeq == Init /\ [][NextSeq]_vars

\* ================================================================ claims
CountWhere(coll, key, val) == Cardinality({i \in 1..Len(coll) : coll[i][key] = val})

IdsOf(coll) == {coll[i].id : i \in 1..Len(coll)}

IsPrefix(old, new) == Len(old) <= Len(new) /\ SubSeq(new, 1, Len(old)) = old

CreateOp == "create_ticket_reservation"

\* C1: a create-ticket-reservation call whose festival_id matches no stored
\* festival is answered 404 "Festival not found" in the step that looks the
\* festival up, and that step changes neither the reservation collection
\* nor the set of suspended handlers; and in every reachable state every
\* persisted reservation names the id of a stored festival.
C1_RefsExist ==
  \A i \in 1..Len(ticket_reservations) :
    ticket_reservations[i].festival_id \in IdsOf(festivals)

C1_MissStep ==
  (/\ response'.op = CreateOp
   /\ response'.status # 200
   /\ response'.arg \notin IdsOf(festivals))
  => /\ response'.status = 404
     /\ response'.body = <<[detail |-> "Festival not found"]>>
     /\ ticket_reservations' = ticket_reservations
     /\ handlers' = handlers

\* C1: every persisted reservation refers to a festival present in the store,
\* and a create request naming an absent festival is answered 404 "Festival
\* not found" and persists nothing.
C1_UnknownFestivalIsNotFound == [](C1_RefsExist) /\ [][C1_MissStep]_vars

C1_Witness ==
  /\ response.op = CreateOp
  /\ response.status = 404
  /\ response.arg = "invalid-festival-id"
  /\ Len(festivals) > 0
  /\ Len(ticket_reservations) > 0

\* C2: every persisted reservation, and every 200 response of create ticket
\* reservation, has total_price = price(ticket_type) * quantity with the
\* table early_bird 15000, regular 18000, vip 35000, family 40000 and 18000
\* for any other type, whatever else the request body held.
ClaimedPrices ==
  [early_bird |-> 15000, regular |-> 18000, vip |-> 35000, family |-> 40000]

ClaimedPrice(T) == IF T \in DOMAIN ClaimedPrices THEN ClaimedPrices[T] ELSE 18000

PricedAsClaimed(r) == r.total_price = ClaimedPrice(r.ticket_type) * r.quantity

\* C2: every persisted reservation, and every 200 response of create ticket
\* reservation, has total_price = unit price of its ticket type * quantity,
\* the unit price of a type outside the four known ones being 0.
C2_TotalPriceLaw ==
  /\ \A i \in 1..Len(ticket_reservations) : PricedAsClaimed(ticket_reservations[i])
  /\ (response.op = CreateOp /\ response.status = 200) => PricedAsClaimed(response.body[1])

C2_Witness ==
  /\ response.op = CreateOp
  /\ response.status = 200
  /\ response.body[1].ticket_type = "student"
  /\ response.body[1].quantity = 2
  /\ response.body[1].total_price = 36000
  /\ ticket_reservations[Len(ticket_reservations)] = response.body[1]

\* C3: when startup runs do not interleave, the store never holds more than
\* one "Moment Festival" nor more than one "DJ Senoh"; once a run has
\* completed it holds exactly one of each (the festival of year 2025); and
\* a run inserts a seed document only into a store that lacks it.
C3_AtMostOne ==
  /\ CountWhere(festivals, "name", "Moment Festival") <= 1
  /\ CountWhere(dj_profiles, "stage_name", "DJ Senoh") <= 1
  /\ (\E p \in Procs : startup[p] = "done") =>
       /\ CountWhere(festivals, "name", "Moment Festival") = 1
       /\ CountWhere(dj_profiles, "stage_name", "DJ Senoh") = 1
       /\ \A i \in 1..Len(festivals) : festivals[i].year = 2025

C3_InsertsOnlyMissing ==
  /\ festivals' # festivals =>
       /\ CountWhere(festivals, "name", "Moment Festival") = 0
       /\ CountWhere(festivals', "name", "Moment Festival") = 1
  /\ dj_profiles' # dj_profiles =>
       /\ CountWhere(dj_profiles, "stage_name", "DJ Senoh") = 0
       /\ CountWhere(dj_profiles', "stage_name", "DJ Senoh") = 1

\* C3: when startups run one after another, the store never holds more than
\* one "Moment Festival" nor more than one "DJ Senoh" profile, and a
\* startup inserts a seed only when the store held none.
C3_SequentialSeedingIdempotent == [](C3_AtMostOne) /\ [][C3_InsertsOnlyMissing]_vars

\* a first run stopped after seeding the festival only, a second run
\* completed the seed data
C3_Witness ==
  /\ \E p \in Procs : startup[p] = "aborted"
  /\ \E p \in Procs : startup[p] = "done"
  /\ Len(festivals) = 1
  /\ Len(dj_profiles) = 1

\* C4: a startup run suspended between its existence lookup and its insert
\* inserts its seed document when it resumes, whatever the store holds by
\* then; so two interleaved runs reach a store with two "Moment Festival"
\* documents (or two "DJ Senoh" profiles), the state C4_Witness describes.
C4_ResumedRunInserts ==
  \A p \in Procs :
    /\ (startup[p] = "insert_festival" /\ startup'[p] = "find_dj") =>
         /\ Len(festivals') = Len(festivals) + 1
         /\ festivals'[Len(festivals')].name = "Moment Festival"
    /\ (startup[p] = "insert_dj" /\ startup'[p] = "done") =>
         /\ Len(dj_profiles') = Len(dj_profiles) + 1
         /\ dj_profiles'[Len(dj_profiles')].stage_name = "DJ Senoh"

\* C4: a startup that found no seed inserts one when it resumes, whatever
\* other startups inserted in between, so interleaved startups can leave
\* duplicate seed documents.
C4_InterleavedSeedingDuplicates == [][C4_ResumedRunInserts]_vars

C4_Witness ==
  /\ CountWhere(festivals, "name", "Moment Festival") = 2
  /\ CountWhere(dj_profiles, "stage_name", "DJ Senoh") = 2

\* C5 as stated: every list-NFT-moments response holds exactly the three
\* records titled "Sunrise Moment #001", "Forest Echo #002", "Unity Flow
\* #003", each with a rarity among legendary, rare, common, and any two
\* responses are equal in every field of every record, id and created_at
\* included.
MomentsShape(ms) ==
  /\ Len(ms) = 3
  /\ ms[1].title = "Sunrise Moment #001"
  /\ ms[2].title = "Forest Echo #002"
  /\ ms[3].title = "Unity Flow #003"
  /\ \A k \in 1..3 : ms[k].rarity \in {"legendary", "rare", "common"}

\* C5 (as stated): any two calls of get nft moments return lists identical in
\* every field, id and created_at included.
C5_IdenticalInEveryField ==
  /\ \A i \in 1..Len(moments_seen) : MomentsShape(moments_seen[i])
  /\ \A i, j \in 1..Len(moments_seen) : moments_seen[i] = moments_seen[j]

\* C5 as amended: the same, except that the responses are equal in every
\* field other than id and created_at, which are generated anew by each call.
GeneratedFields == {"id", "created_at"}

Stable(ms) ==
  [k \in 1..Len(ms) |-> [f \in (DOMAIN ms[k]) \ GeneratedFields |-> ms[k][f]]]

\* C5 (amended): any two calls of get nft moments return the same three items
\* in the same order, identical in every field except id and created_at.
C5_IdenticalButGenerated ==
  /\ \A i \in 1..Len(moments_seen) : MomentsShape(moments_seen[i])
  /\ \A i, j \in 1..Len(moments_seen) : Stable(moments_seen[i]) = Stable(moments_seen[j])

C5_Witness ==
  /\ Len(moments_seen) = 2
  /\ moments_seen[1] # moments_seen[2]
  /\ Len(ticket_reservations) > 0
  /\ response.op = "get_nft_moments"

\* C6: get festival by id answers 404 "Festival not found" exactly when no
\* stored festival has the requested id, and otherwise answers 200 with a
\* stored festival document whose id is the requested id.
C6_GetFestivalById ==
  response.op = "get_festival" =>
    /\ response.status \in {200, 404}
    /\ response.status = 404 <=> response.arg \notin IdsOf(festivals)
    /\ response.status = 404 => response.body = <<[detail |-> "Festival not found"]>>
    /\ response.status = 200 =>
         /\ response.body[1].id = response.arg
         /\ \E i \in 1..Len(festivals) : festivals[i] = response.body[1]

C6_Witness ==
  /\ response.op = "get_festival"
  /\ response.status = 200
  /\ Len(festivals) = 2
  /\ response.arg = festivals[2].id

\* C7: no step removes or alters a stored document; the four GET routes
\* leave the three collections unchanged; a 200 from create ticket
\* reservation appends exactly the returned document to the reservations
\* and changes no other collection; a create step that does not answer 200
\* changes no collection; a startup step leaves the reservations unchanged
\* and adds at most one document.
ReadOps == {"get_festivals", "get_festival", "get_dj_profile", "get_nft_moments"}

C7_Step ==
  /\ IsPrefix(festivals, festivals')
  /\ IsPrefix(dj_profiles, dj_profiles')
  /\ IsPrefix(ticket_reservations, ticket_reservations')
  /\ response'.op \in ReadOps =>
       UNCHANGED <<festivals, dj_profiles, ticket_reservations>>
  /\ (response'.op = CreateOp /\ response'.status = 200) =>
       /\ ticket_reservations' = Append(ticket_reservations, response'.body[1])
       /\ UNCHANGED <<festivals, dj_profiles>>
  /\ (response'.op = CreateOp /\ response'.status # 200) =>
       UNCHANGED <<festivals, dj_profiles, ticket_reservations>>
  /\ response'.op = "startup_event" =>
       /\ UNCHANGED ticket_reservations
       /\ Len(festivals') + Len(dj_profiles') <= Len(festivals) + Len(dj_profiles) + 1

\* C7: no step removes or alters a stored document; reads change nothing,
\* and each collection only ever grows by appended documents.
C7_NothingRemovedOrAltered == [][C7_Step]_vars

C7_Witness ==
  /\ Len(festivals) = 2
  /\ Len(dj_profiles) > 0
  /\ Len(ticket_reservations) = 1
  /\ Len(moments_seen) > 0
  /\ response.op = "get_dj_profile"

\* C8: every persisted reservation has status "pending", and so has the
\* document every 200 response of create ticket reservation carries,
\* whatever undeclared fields (status, id, total_price) the body held.
C8_StatusPending ==
  /\ \A i \in 1..Len(ticket_reservations) : ticket_reservations[i].status = "pending"
  /\ (response.op = CreateOp /\ response.status = 200) =>
       response.body[1].status = "pending"

C8_Witness ==
  /\ response.op = CreateOp
  /\ response.status = 200
  /\ response.body[1].status = "pending"
  /\ response.body[1].id # "client-id"
  /\ \E i \in 1..Len(ticket_reservations) : ticket_reservations[i] = response.body[1]

\* C9: every persisted reservation has quantity >= 1.
C9_QuantityPositive ==
  \A i \in 1..Len(ticket_reservations) : ticket_reservations[i].quantity >= 1

\* C10: once the harness process has exited, its exit code is 0 exactly
\* when six checks recorded a result and every one is a pass, and it is 1
\* whenever some check recorded a failure.
C10_ExitCode ==
  pc = "exited" =>
    /\ exit_code \in {0, 1}
    /\ exit_code = 0 <=>
         /\ Len(test_results) = 6
         /\ \A i \in 1..Len(test_results) : test_results[i].success
    /\ (\E i \in 1..Len(test_results) : ~test_results[i].success) => exit_code = 1

C10_Witness ==
  /\ pc = "exited"
  /\ exit_code = 0
  /\ Len(test_results) = 6

\* ---- C11
CheckOrder ==
  <<"Festival List API", "Festival Detail API", "DJ Profile API", "NFT Moments API",
    "Ticket Reservation API", "Ticket Reservation Validation">>

CheckPositions ==
  <<"test_festivals_list", "test_festival_detail", "test_dj_profile", "test_nft_moments",
    "test_ticket_reservation", "test_ticket_reservation_validation", "summary">>

\* the results recorded so far are those of the first checks, one each, in
\* the fixed order, and the run stands at the check after them
C11_OneResultEachInOrder ==
  /\ Len(test_results) <= 6
  /\ \A i \in 1..Len(test_results) : test_results[i].test = CheckOrder[i]
  /\ pc # "exited" => pc = CheckPositions[Len(test_results) + 1]

NetworkFailureRecorded(k) ==
  /\ test_results' = Append(test_results,
                            [test |-> CheckOrder[k], success |-> FALSE,
                             message |-> "Request failed"])
  /\ pc' = CheckPositions[k + 1]
  /\ exit_code' = exit_code
  /\ escaped' = escaped

\* a check whose request raises a RequestException records its own failure
\* and hands over to the next check
C11_NetworkFailureStep ==
  \A caught \in BOOLEAN :
    /\ TestFestivalsList(RequestException, caught) => NetworkFailureRecorded(1)
    /\ TestFestivalDetail(RequestException, caught) => NetworkFailureRecorded(2)
    /\ TestDjProfile(RequestException, caught) => NetworkFailureRecorded(3)
    /\ TestNftMoments(RequestException, caught) => NetworkFailureRecorded(4)
    /\ TestTicketReservation(RequestException, caught) => NetworkFailureRecorded(5)
    /\ TestTicketReservationValidation(RequestException) => NetworkFailureRecorded(6)

\* C11: a network-level failure in a check is recorded as that check's
\* failure and the run goes on with the next check; results are recorded
\* one per check in the fixed order, so a run that reaches the summary has
\* exactly six.
C11_NetworkFailureDoesNotAbort ==
  [](C11_OneResultEachInOrder) /\ [][C11_NetworkFailureStep]_vars

\* check 1 passed and every later check met a network failure
C11_Witness ==
  /\ pc = "exited"
  /\ Len(test_results) = 6
  /\ test_results[1].success
  /\ \A i \in 2..6 : test_results[i].message = "Request failed"
  /\ Len(requests) = 6

\* ---- C12
\* C12: whatever status code and JSON body the service answers with, no
\* exception escapes run_all_tests: the run reaches the summary, so the
\* process exits with all six checks recorded. (A body that is not JSON at
\* all is not a JSON body shape; the JSONDecodeError it raises is left out.)
C12_NoExceptionEscapes ==
  /\ escaped \in {"none", "JSONDecodeError"}
  /\ (pc = "exited" /\ escaped = "none") =>
       (Len(test_results) = 6 /\ exit_code \in {0, 1})

\* ---- C13
\* C13 (as stated): the stored festival id is set only when check 1 passes;
\* when check 1 recorded a failure no festival id is stored.
C13_IdOnlyOnSuccess ==
  (Len(test_results) >= 1 /\ ~test_results[1].success) => tester_festival_id = JNull

BeforeFirstElement ==
  {"Request failed", "Request failed: JSONDecodeError", "HTTP",
   "Empty festivals list returned"}

\* C13 (amended): the id is stored as soon as the first element of the
\* listing is read, before it is validated: it is set when check 1 passes
\* and also when check 1 fails on the name/year comparison, and it is unset
\* when check 1 failed, or an exception left it, before that point.
C13_IdStoredBeforeValidation ==
  /\ Len(test_results) >= 1 =>
       /\ test_results[1].success => tester_festival_id # JNull
       /\ test_results[1].message = "Unexpected festival data" =>
            tester_festival_id # JNull
       /\ test_results[1].message \in BeforeFirstElement => tester_festival_id = JNull
  /\ (escaped # "none" /\ test_results = <<>>) => tester_festival_id = JNull

\* check 1 failed, and check 2 went on to ask for the festival it stored
C13_Witness ==
  /\ Len(test_results) >= 2
  /\ ~test_results[1].success
  /\ tester_festival_id # JNull
  /\ \E i \in 1..Len(requests) :
       requests[i] = Get("/festivals/{festival_id}", tester_festival_id)

\* ---- C14
NoIdFailure(k, next) ==
  /\ requests' = requests
  /\ Len(test_results') = Len(test_results) + 1
  /\ test_results'[Len(test_results')].test = CheckOrder[k]
  /\ ~test_results'[Len(test_results')].success
  /\ pc' = next

Sends(request) ==
  /\ pc' # pc
  /\ requests' = Append(requests, request)

C14_Step ==
  /\ (pc = "test_festival_detail" /\ tester_festival_id = JNull) =>
       (pc' # pc => NoIdFailure(2, "test_dj_profile"))
  /\ (pc = "test_ticket_reservation" /\ tester_festival_id = JNull) =>
       (pc' # pc => NoIdFailure(5, "test_ticket_reservation_validation"))
  /\ (pc = "test_dj_profile" /\ pc' # pc) => Sends(Get("/dj-profile", JNull))
  /\ (pc = "test_nft_moments" /\ pc' # pc) => Sends(Get("/nft-moments", JNull))
  /\ (pc = "test_ticket_reservation_validation" /\ pc' # pc) =>
       Sends(Post("/ticket-reservation", JStr("invalid-festival-id")))

\* with no id captured, the run has asked for no festival by id and has
\* posted no reservation other than the deliberately invalid one
C14_NothingSentForAbsentId ==
  (pc # "test_festivals_list" /\ tester_festival_id = JNull) =>
    \A i \in 1..Len(requests) :
      /\ requests[i].path # "/festivals/{festival_id}"
      /\ requests[i].method = "POST" => requests[i].arg = JStr("invalid-festival-id")

\* C14: when check 1 captured no festival id, the festival detail check and
\* the ticket reservation check each record a failure without sending a
\* request, so the run creates no reservation, while the DJ profile, NFT
\* moments and reservation validation checks send theirs.
C14_NoIdNoRequest == [](C14_NothingSentForAbsentId) /\ [][C14_Step]_vars

C14_Witness ==
  /\ pc = "exited"
  /\ escaped = "none"
  /\ tester_festival_id = JNull
  /\ Len(test_results) = 6
  /\ requests = <<Get("/festivals", JNull), Get("/dj-profile", JNull),
                  Get("/nft-moments", JNull),
                  Post("/ticket-reservation", JStr("invalid-festival-id"))>>

\* ---- C15
Completed == \E p \in Procs : startup[p] = "done"

\* C15: once a startup run has completed, the store holds a festival and a
\* "DJ Senoh" profile in every later state, so get DJ profile does not
\* answer 404 and list festivals does not answer an empty list; and get DJ
\* profile answers 404 only when no "DJ Senoh" profile is stored.
C15_SeededAfterStartup ==
  /\ Completed =>
       /\ Len(festivals) > 0
       /\ CountWhere(dj_profiles, "stage_name", "DJ Senoh") > 0
       /\ response.op = "get_dj_profile" => response.status = 200
       /\ response.op = "get_festivals" => response.body # <<>>
  /\ (response.op = "get_dj_profile" /\ response.status = 404) =>
       CountWhere(dj_profiles, "stage_name", "DJ Senoh") = 0

\* one run completed, another gave up on the way, and the profile is served
C15_Witness ==
  /\ Completed
  /\ \E p \in Procs : startup[p] = "aborted"
  /\ response.op = "get_dj_profile"
  /\ response.status = 200
  /\ response.body[1].stage_name = "DJ Senoh"

====
